---- MODULE Spec2Model ----
(***************************************************************************)
(* Ingestion-and-retrieval pipeline of the RAG starter:                    *)
(*   - the vector store (src/lib/vector-store.ts) running against the      *)
(*     documents / document_chunks tables of the schema, one database      *)
(*     statement per step, with several storeDocument calls in flight;     *)
(*   - the chunker (src/lib/chunking.ts) on strings modelled as tuples of  *)
(*     one-character strings;                                              *)
(*   - vectorSearch (src/lib/vector-store.ts), one await per step, with    *)
(*     similarities in hundredths;                                         *)
(*   - the handlers POST /api/ingest (both versions, with and without a    *)
(*     url) and POST /api/upload, which call the chunker and storeDocument;*)
(*   - the attributes of the documents row that storeDocument inserts;     *)
(*   - the FileUpload component (src/components/file-upload.tsx), one      *)
(*     step per event handler or resumed await.                            *)
(***************************************************************************)
EXTENDS Integers, Sequences, FiniteSets, TLC

\* ------------------------------------------------------------------------
\* Bounds
\* ------------------------------------------------------------------------
MaxId == 1         \* Spec: calls are started while the id sequence is <= MaxId
MaxSeqId == 2      \* SpecSeq: the same, for calls made one after another
MaxSearchId == 1   \* SpecSearch: the same, for the ingests that fill the store
MaxIngestId == 2   \* SpecIngest: requests are accepted while the id sequence is <= MaxIngestId
MaxUploadId == 1   \* SpecUpload: the same, for upload requests
MaxUploadFiles == 6  \* SpecUpload: number of files of one request
MaxTextLen == 6    \* SpecChunk: length of the input text
MaxMaxLength == 4  \* SpecChunk: options.maxLength is drawn from 0..MaxMaxLength
MaxOverlap == 2    \* SpecChunk: options.overlap is drawn from 0..MaxOverlap
MaxMinChunk == 2   \* SpecChunk: options.minChunkLength is drawn from 0..MaxMinChunk
MaxUiFiles == 3    \* SpecUi: number of files dropped on the FileUpload component

\* ------------------------------------------------------------------------
\* Strings
\* ------------------------------------------------------------------------
IsSpace(c) == c = " "

RECURSIVE TrimStart(_)
TrimStart(s) ==
    IF s = <<>> THEN <<>>
    ELSE IF IsSpace(Head(s)) THEN TrimStart(Tail(s)) ELSE s

RECURSIVE TrimEnd(_)
TrimEnd(s) ==
    IF s = <<>> THEN <<>>
    ELSE IF IsSpace(s[Len(s)]) THEN TrimEnd(SubSeq(s, 1, Len(s) - 1)) ELSE s

Trim(s) == TrimEnd(TrimStart(s))

\* ------------------------------------------------------------------------
\* Vector store: inputs
\* ------------------------------------------------------------------------
Procs == {1, 2}
NoUrl == ""
Urls == {"x"}
ChunkTexts == {<<"a">>, <<"b">>, <<" ">>}

\* the chunk lists of the calls that run one after another
ChunkLists ==
    {<<>>, << <<"a">> >>, << <<"b">> >>, << <<" ">> >>,
     << <<"a">>, <<"a">> >>, << <<"a">>, <<"b">> >>,
     << <<" ">>, <<"a">> >>, << <<"a">>, <<" ">> >>}

\* the input object of storeDocument: url may be absent, chunks may be absent
Inputs ==
    [url : Urls \cup {NoUrl}, hasChunks : {TRUE}, chunks : ChunkLists]
      \cup [url : Urls \cup {NoUrl}, hasChunks : {FALSE}, chunks : {<<>>}]

\* the chunk lists and the inputs of the calls that run concurrently
RaceChunkLists ==
    {<<>>, << <<"a">> >>, << <<" ">> >>, << <<"a">>, <<"a">> >>,
     << <<" ">>, <<"a">> >>, << <<"a">>, <<" ">> >>}
RaceInputs ==
    [url : Urls \cup {NoUrl}, hasChunks : {TRUE}, chunks : RaceChunkLists]
      \cup [url : Urls \cup {NoUrl}, hasChunks : {FALSE}, chunks : {<<>>}]

NoInput == [url |-> NoUrl, hasChunks |-> FALSE, chunks |-> <<>>]
NoResult == [status |-> "none", id |-> 0, chunksCreated |-> 0, error |-> ""]
Thrown(message) == [status |-> "error", id |-> 0, chunksCreated |-> 0, error |-> message]

\* the embedding model: a text is mapped to a direction, a multiple of 60
\* degrees; identical texts get identical embeddings
Directions == 0..5
EmbeddingModel(text) ==
    IF text = <<"a">> THEN 0
    ELSE IF text = <<"b">> THEN 1
    ELSE 3

VARIABLES
    documents,        \* rows of table documents: [id, url]
    document_chunks,  \* rows of table document_chunks
    nextId,           \* the BIGSERIAL sequence of documents.id
    pc,               \* per call: the statement it is about to run
    input,            \* per call: the input object
    document,         \* per call: id of the row returned by INSERT documents
    i,                \* per call: loop index (1-based here, 0-based in the code)
    chunksCreated,    \* per call: the counter of line 112
    embedding,        \* per call: the embedding just returned by embed()
    attempted,        \* per call: indexes for which embed() was called
    embedded,         \* per call: indexes for which embed() returned a 1536-vector
    result            \* per call: what the call returned or threw

storeVars == <<documents, document_chunks, nextId, pc, input, document, i,
               chunksCreated, embedding, attempted, embedded, result>>

VARIABLES
    text,             \* chunkContent: the input text
    maxLength,        \* chunkContent: options.maxLength
    overlap,          \* chunkContent: options.overlap
    minChunkLength,   \* chunkContent: options.minChunkLength
    cpc,              \* chunkContent: "off", "call", "loop", "flush" or "done"
    sentences,        \* chunkContent: the filtered sentence list
    si,               \* chunkContent: loop index (1-based here)
    currentChunk,     \* chunkContent: the running chunk
    currentLength,    \* chunkContent: its tracked length
    chunks,           \* chunkContent: the output list, then the returned value
    seed,             \* how the running chunk was started (closed chunk, overlap)
    seeds             \* the seed of every chunk pushed by the loop or the flush

chunkVars == <<text, maxLength, overlap, minChunkLength, cpc, sentences, si,
               currentChunk, currentLength, chunks, seed, seeds>>

VARIABLES
    spc,                  \* vectorSearch: "idle", "embed", "select", "done" or "failed"
    query,                \* vectorSearch: the query text
    limit,                \* vectorSearch: the limit argument
    similarityThreshold,  \* vectorSearch: the threshold argument, in hundredths
    queryEmbedding,       \* vectorSearch: the embedding returned by embed()
    results,              \* vectorSearch: the returned list
    searchError,          \* vectorSearch: the message of the thrown error, or ""
    embedCalls,           \* embed() calls made by the search in progress
    storeQueries          \* SELECT statements run by the search in progress

searchVars == <<spc, query, limit, similarityThreshold, queryEmbedding, results,
                searchError, embedCalls, storeQueries>>

VARIABLES
    ipc,              \* POST /api/ingest: "idle", "chunk", "store" or "done"
    body,             \* POST /api/ingest: the request body
    response          \* POST /api/ingest: the response

ingestVars == <<ipc, body, response>>

VARIABLES
    upc,              \* POST /api/upload: "idle", "loop", "store" or "done"
    uploadedFiles,    \* POST /api/upload: formData.getAll('files')
    fi,               \* POST /api/upload: position of the loop (1-based here)
    fileChunks,       \* POST /api/upload: the chunks of the file in progress
    uploadResults,    \* POST /api/upload: the results array
    uploadErrors,     \* POST /api/upload: the errors array
    uploadResponse,   \* POST /api/upload: the response
    firstId           \* the id sequence when the upload in progress began

uploadVars == <<upc, uploadedFiles, fi, fileChunks, uploadResults, uploadErrors,
                uploadResponse, firstId>>

VARIABLES
    docInput,         \* storeDocument: the keys and the source_type of its input
    docRow            \* the attributes of the documents row inserted for it

rowVars == <<docInput, docRow>>

VARIABLES
    displayedFiles,   \* FileUpload: the state uploadedFiles, rows [id, status]
    isUploading,      \* FileUpload: the state isUploading
    filesToUpload,    \* uploadFiles: the ids of the files pending at its start
    fpos,             \* uploadFiles: position of the loop in filesToUpload
    fpc,              \* uploadFiles: "idle", or "fetch" while it waits for a response
    nextFileId        \* the ids given by onDrop, never reused

uiVars == <<displayedFiles, isUploading, filesToUpload, fpos, fpc, nextFileId>>

vars == <<storeVars, chunkVars, searchVars, ingestVars, uploadVars, rowVars,
          uiVars>>

\* what the operations of one component leave alone
nonStoreVars == <<chunkVars, searchVars, ingestVars, uploadVars, rowVars, uiVars>>
nonChunkVars == <<storeVars, searchVars, ingestVars, uploadVars, rowVars, uiVars>>
nonSearchVars == <<storeVars, chunkVars, ingestVars, uploadVars, rowVars, uiVars>>
nonRowVars == <<storeVars, chunkVars, searchVars, ingestVars, uploadVars, uiVars>>
nonUiVars == <<storeVars, chunkVars, searchVars, ingestVars, uploadVars, rowVars>>

\* ------------------------------------------------------------------------
\* The database: statements and constraints
\* ------------------------------------------------------------------------
Min(S) == CHOOSE x \in S : \A y \in S : x <= y

\* SELECT id FROM documents WHERE url = u
SelectByUrl(u) == {d \in documents : d.url = u}

\* the rows WHERE id = n
SelectById(n) == {d \in documents : d.id = n}

\* SELECT * FROM documents WHERE id = n  (null when there is no row)
NoDocument == [id |-> 0, url |-> NoUrl]
getDocumentById(n) ==
    IF \E d \in documents : d.id = n
    THEN CHOOSE d \in documents : d.id = n
    ELSE NoDocument

\* variant: the url column without its UNIQUE constraint
UniqueViolationOff(u) == FALSE

\* url TEXT UNIQUE: a second row with the same non-null url is rejected
UniqueViolation(u) == u # NoUrl /\ \E d \in documents : d.url = u

\* variant: document_id without its foreign key
FkViolationOff(n) == FALSE

\* document_id REFERENCES documents(id): the chunk's document must exist
FkViolation(n) == ~ \E d \in documents : d.id = n

\* embedding VECTOR(1536): a vector of another length is rejected
WrongDim == 0 - 1
VectorViolation(e) == e = WrongDim

\* variant: the foreign key without ON DELETE CASCADE
CascadeDeleteOff(ds) == document_chunks

\* ON DELETE CASCADE: the chunks left when the documents ds are deleted
CascadeDelete(ds) ==
    {c \in document_chunks : ~ \E d \in ds : d.id = c.document_id}

\* ------------------------------------------------------------------------
\* vectorSearch: the query that lines 218-231 send to the database
\* ------------------------------------------------------------------------
DefaultLimit == 5
DefaultThreshold == 70      \* 0.7, similarities are in hundredths

\* the cosine of the angle between two directions, in hundredths
Cos100(k) ==
    IF k = 0 THEN 100
    ELSE IF k \in {1, 5} THEN 50
    ELSE IF k \in {2, 4} THEN 0 - 50
    ELSE 0 - 100

\* dc.embedding <=> query embedding: the cosine distance, 0 to 2
CosineDistance(e1, e2) == 100 - Cos100((e1 - e2) % 6)

\* variant: the distance is selected in place of 1 - distance
SimilarityIsDistance(e1, e2) == CosineDistance(e1, e2)

\* 1 - (dc.embedding <=> query embedding)
Similarity(e1, e2) == 100 - CosineDistance(e1, e2)

\* variant: the comparison of the WHERE clause is >=
AboveThresholdInclusive(s, t) == s >= t

\* WHERE 1 - distance > similarityThreshold
AboveThreshold(s, t) == s > t

\* the SELECT list of lines 219-225 for one chunk row
SearchResult(c, qe) ==
    [document_id |-> c.document_id,
     chunk_index |-> c.chunk_index,
     content |-> c.content,
     document_url |-> getDocumentById(c.document_id).url,
     similarity |-> Similarity(c.embedding, qe)]

\* FROM document_chunks dc JOIN documents d ... WHERE similarity > threshold
SearchHits(qe, t) ==
    {c \in document_chunks :
        /\ SelectById(c.document_id) # {}
        /\ AboveThreshold(Similarity(c.embedding, qe), t)}

\* variant: the rows are ordered by the selected similarity, ascending
SortKeyIsSimilarity(c, qe) == Similarity(c.embedding, qe)

\* ORDER BY dc.embedding <=> query embedding
SortKey(c, qe) == CosineDistance(c.embedding, qe)

\* every order in which the database may deliver the rows: ascending by the
\* sort key, rows with equal keys in any order
RECURSIVE OrderBy(_, _)
OrderBy(rows, qe) ==
    IF rows = {} THEN {<<>>}
    ELSE LET least == Min({SortKey(c, qe) : c \in rows})
         IN  UNION {{<<c>> \o r : r \in OrderBy(rows \ {c}, qe)} :
                       c \in {x \in rows : SortKey(x, qe) = least}}

\* variant: LIMIT lets one row more through
LimitRowsOneMore(r, n) == SubSeq(r, 1, Min({n + 1, Len(r)}))

\* LIMIT n
LimitRows(r, n) == SubSeq(r, 1, Min({n, Len(r)}))

\* the result lists the SELECT of lines 218-231 may return
RankedLists(qe, t, n) ==
    {[k \in 1..Len(LimitRows(r, n)) |-> SearchResult(LimitRows(r, n)[k], qe)] :
        r \in OrderBy(SearchHits(qe, t), qe)}

\* variant: the query is tested without trim()
IsBlankQueryNoTrim(q) == q = <<>>

\* line 207: !query.trim()
IsBlankQuery(q) == Trim(q) = <<>>

\* what vectorSearch(q, n, t) may return when embed() works (lines 206-240)
SearchOutcomes(q, n, t) ==
    IF IsBlankQuery(q) THEN {<<>>}
    ELSE RankedLists(EmbeddingModel(q), t, n)

QueryTexts == {<<"a">>, <<"b">>, <<"c">>, <<" ">>, <<>>}
Thresholds == {0 - 101, 50, DefaultThreshold, 101}
Limits == {1, DefaultLimit}

\* ------------------------------------------------------------------------
\* storeDocument, one await per action
\* ------------------------------------------------------------------------
\* variant: the cleanup DELETE removes nothing
CleanupNothing(n) == {}

\* the rows removed by the cleanup DELETE of line 160
CleanupRows(n) == SelectById(n)

\* variant: only a chunk of length 0 is skipped
IsEmptyChunkNoTrim(chunk) == chunk = <<>>

\* line 120: !chunk.trim()
IsEmptyChunk(chunk) == Trim(chunk) = <<>>

\* the next index >= k whose chunk is not skipped as empty (lines 117-123)
NextIndex(list, k) ==
    LET S == {j \in k..Len(list) : ~ IsEmptyChunk(list[j])}
    IN  IF S = {} THEN Len(list) + 1 ELSE Min(S)

\* variant: a failed chunk ends the loop (break instead of continue)
AfterFailureAbort(list, k) == Len(list) + 1

\* where the loop goes after the catch block of a failed chunk (lines 149-153)
AfterFailure(list, k) == NextIndex(list, k + 1)

\* variant: no zero-chunks check after the loop
LoopPcNoCheck(list, k, created) ==
    IF k <= Len(list) THEN "embed" ELSE "verify"

\* the statement that follows the loop position k (lines 117, 158)
LoopPc(list, k, created) ==
    IF k <= Len(list) THEN "embed"
    ELSE IF created = 0 THEN "cleanup" ELSE "verify"

Running(p) == pc[p] \notin {"idle", "done", "failed"}

\* lines 37-56: the call, the chunks check and the url test
StoreDocument(p, inp) ==
    /\ UNCHANGED nonStoreVars
    /\ pc[p] = "idle"
    /\ input' = [input EXCEPT ![p] = inp]
    /\ document' = [document EXCEPT ![p] = 0]
    /\ i' = [i EXCEPT ![p] = 0]
    /\ chunksCreated' = [chunksCreated EXCEPT ![p] = 0]
    /\ embedding' = [embedding EXCEPT ![p] = 0]
    /\ attempted' = [attempted EXCEPT ![p] = {}]
    /\ embedded' = [embedded EXCEPT ![p] = {}]
    /\ IF ~ inp.hasChunks
       THEN /\ pc' = [pc EXCEPT ![p] = "failed"]
            /\ result' = [result EXCEPT ![p] =
                              Thrown("Chunks must be provided in the input object")]
       ELSE /\ pc' = [pc EXCEPT ![p] =
                          IF inp.url # NoUrl THEN "select" ELSE "insert"]
            /\ result' = [result EXCEPT ![p] = NoResult]
    /\ UNCHANGED <<documents, document_chunks, nextId>>

\* lines 57-61: SELECT id FROM documents WHERE url
SelectExisting(p) ==
    /\ UNCHANGED nonStoreVars
    /\ pc[p] = "select"
    /\ pc' = [pc EXCEPT ![p] =
                 IF SelectByUrl(input[p].url) # {} THEN "delete" ELSE "insert"]
    /\ UNCHANGED <<documents, document_chunks, nextId, input, document, i,
                   chunksCreated, embedding, attempted, embedded, result>>

\* lines 62-66: DELETE FROM documents WHERE url
DeleteExisting(p) ==
    /\ UNCHANGED nonStoreVars
    /\ pc[p] = "delete"
    /\ documents' = documents \ SelectByUrl(input[p].url)
    /\ document_chunks' = CascadeDelete(SelectByUrl(input[p].url))
    /\ pc' = [pc EXCEPT ![p] = "insert"]
    /\ UNCHANGED <<nextId, input, document, i, chunksCreated, embedding,
                   attempted, embedded, result>>

\* lines 90-115: INSERT INTO documents ... RETURNING id; the sequence advances
\* also when the row is rejected
InsertDocument(p) ==
    /\ UNCHANGED nonStoreVars
    /\ pc[p] = "insert"
    /\ nextId' = nextId + 1
    /\ IF UniqueViolation(input[p].url)
       THEN /\ pc' = [pc EXCEPT ![p] = "failed"]
            /\ result' = [result EXCEPT ![p] =
                              Thrown("duplicate key value violates unique constraint")]
            /\ UNCHANGED <<documents, document, i>>
       ELSE /\ documents' = documents \cup {[id |-> nextId, url |-> input[p].url]}
            /\ document' = [document EXCEPT ![p] = nextId]
            /\ i' = [i EXCEPT ![p] = NextIndex(input[p].chunks, 1)]
            /\ pc' = [pc EXCEPT ![p] =
                         LoopPc(input[p].chunks, NextIndex(input[p].chunks, 1), 0)]
            /\ UNCHANGED result
    /\ UNCHANGED <<document_chunks, input, chunksCreated, embedding, attempted,
                   embedded>>

\* lines 125-132: embed() of chunk i; it returns a vector, or a vector of the
\* wrong length, or it throws
EmbedChunk(p) ==
    /\ UNCHANGED nonStoreVars
    /\ pc[p] = "embed"
    /\ attempted' = [attempted EXCEPT ![p] = @ \cup {i[p]}]
    /\ \E outcome \in {"ok", "wrongdim", "throws"} :
         IF outcome = "throws"
         THEN /\ i' = [i EXCEPT ![p] = AfterFailure(input[p].chunks, i[p])]
              /\ pc' = [pc EXCEPT ![p] =
                           LoopPc(input[p].chunks,
                                  AfterFailure(input[p].chunks, i[p]),
                                  chunksCreated[p])]
              /\ UNCHANGED <<embedding, embedded>>
         ELSE /\ embedding' = [embedding EXCEPT ![p] =
                                  IF outcome = "ok"
                                  THEN EmbeddingModel(input[p].chunks[i[p]])
                                  ELSE WrongDim]
              /\ embedded' = [embedded EXCEPT ![p] =
                                 IF outcome = "ok" THEN @ \cup {i[p]} ELSE @]
              /\ pc' = [pc EXCEPT ![p] = "insertChunk"]
              /\ UNCHANGED i
    /\ UNCHANGED <<documents, document_chunks, nextId, input, document,
                   chunksCreated, result>>

\* variant: the rows are numbered by the count of rows created so far
ChunkIndexCreated(p, k) == chunksCreated[p]

\* line 143: chunk_index is the loop variable i, which counts from 0 (the
\* positions of a chunk list are counted from 1 here)
ChunkIndexOf(p, k) == k - 1

\* the row that call p inserts for the chunk at index j (lines 137-145)
ChunkRow(p, j) ==
    [document_id |-> document[p],
     content |-> input[p].chunks[j],
     embedding |-> EmbeddingModel(input[p].chunks[j]),
     chunk_index |-> ChunkIndexOf(p, j)]

\* lines 136-153: INSERT INTO document_chunks; a rejected row is caught
InsertChunk(p) ==
    /\ UNCHANGED nonStoreVars
    /\ pc[p] = "insertChunk"
    /\ IF FkViolation(document[p]) \/ VectorViolation(embedding[p])
       THEN /\ i' = [i EXCEPT ![p] = AfterFailure(input[p].chunks, i[p])]
            /\ pc' = [pc EXCEPT ![p] =
                         LoopPc(input[p].chunks,
                                AfterFailure(input[p].chunks, i[p]),
                                chunksCreated[p])]
            /\ UNCHANGED <<document_chunks, chunksCreated>>
       ELSE /\ document_chunks' = document_chunks \cup
                   {[document_id |-> document[p],
                     content |-> input[p].chunks[i[p]],
                     embedding |-> embedding[p],
                     chunk_index |-> ChunkIndexOf(p, i[p])]}
            /\ chunksCreated' = [chunksCreated EXCEPT ![p] = @ + 1]
            /\ i' = [i EXCEPT ![p] = NextIndex(input[p].chunks, i[p] + 1)]
            /\ pc' = [pc EXCEPT ![p] =
                         LoopPc(input[p].chunks,
                                NextIndex(input[p].chunks, i[p] + 1),
                                chunksCreated[p] + 1)]
    /\ UNCHANGED <<documents, nextId, input, document, embedding, attempted,
                   embedded, result>>

\* lines 158-162: DELETE FROM documents WHERE id, then throw
CleanupDocument(p) ==
    /\ UNCHANGED nonStoreVars
    /\ pc[p] = "cleanup"
    /\ documents' = documents \ CleanupRows(document[p])
    /\ document_chunks' = CascadeDelete(CleanupRows(document[p]))
    /\ pc' = [pc EXCEPT ![p] = "failed"]
    /\ result' = [result EXCEPT ![p] =
                     Thrown("Failed to create any chunks for document")]
    /\ UNCHANGED <<nextId, input, document, i, chunksCreated, embedding,
                   attempted, embedded>>

\* lines 164-190: the two verification SELECTs (logged only) and the return
VerifyAndReturn(p) ==
    /\ UNCHANGED nonStoreVars
    /\ pc[p] = "verify"
    /\ pc' = [pc EXCEPT ![p] = "done"]
    /\ result' = [result EXCEPT ![p] =
                     [status |-> "ok", id |-> document[p],
                      chunksCreated |-> chunksCreated[p], error |-> ""]]
    /\ UNCHANGED <<documents, document_chunks, nextId, input, document, i,
                   chunksCreated, embedding, attempted, embedded>>

\* the caller has taken the result or the error: the call is over
Finish(p) ==
    /\ UNCHANGED nonStoreVars
    /\ pc[p] \in {"done", "failed"}
    /\ pc' = [pc EXCEPT ![p] = "idle"]
    /\ input' = [input EXCEPT ![p] = NoInput]
    /\ document' = [document EXCEPT ![p] = 0]
    /\ i' = [i EXCEPT ![p] = 0]
    /\ chunksCreated' = [chunksCreated EXCEPT ![p] = 0]
    /\ embedding' = [embedding EXCEPT ![p] = 0]
    /\ attempted' = [attempted EXCEPT ![p] = {}]
    /\ embedded' = [embedded EXCEPT ![p] = {}]
    /\ result' = [result EXCEPT ![p] = NoResult]
    /\ UNCHANGED <<documents, document_chunks, nextId>>

\* deleteDocument(documentId): DELETE FROM documents WHERE id
deleteDocument(n) ==
    /\ UNCHANGED nonStoreVars
    /\ documents' = documents \ SelectById(n)
    /\ document_chunks' = CascadeDelete(SelectById(n))
    /\ UNCHANGED <<nextId, pc, input, document, i, chunksCreated, embedding,
                   attempted, embedded, result>>

\* DELETE /api/files/[id]: DELETE FROM documents WHERE id RETURNING id
DeleteFile(n) ==
    /\ UNCHANGED nonStoreVars
    /\ documents' = documents \ SelectById(n)
    /\ document_chunks' = CascadeDelete(SelectById(n))
    /\ UNCHANGED <<nextId, pc, input, document, i, chunksCreated, embedding,
                   attempted, embedded, result>>

\* ------------------------------------------------------------------------
\* vectorSearch, one await per action
\* ------------------------------------------------------------------------
\* lines 201-209: the call and the test of the trimmed query
vectorSearch(q, n, t) ==
    /\ spc = "idle"
    /\ query' = q
    /\ limit' = n
    /\ similarityThreshold' = t
    /\ queryEmbedding' = 0
    /\ results' = <<>>
    /\ searchError' = ""
    /\ embedCalls' = 0
    /\ storeQueries' = 0
    /\ spc' = IF IsBlankQuery(q) THEN "done" ELSE "embed"
    /\ UNCHANGED nonSearchVars

\* variant: a failed embed() is swallowed and an empty list is returned
SearchEmbedFailureHidden == "done"

\* lines 241-244: where an exception of the try block ends
SearchEmbedFailure == "failed"

\* lines 211-215: embed() of the query; it returns a vector, or a vector of
\* the wrong length, or it throws
SearchEmbed ==
    /\ spc = "embed"
    /\ embedCalls' = embedCalls + 1
    /\ \E outcome \in {"ok", "wrongdim", "throws"} :
         IF outcome = "throws"
         THEN /\ spc' = SearchEmbedFailure
              /\ searchError' = IF SearchEmbedFailure = "failed"
                                THEN "Vector search failed: embedding" ELSE ""
              /\ UNCHANGED queryEmbedding
         ELSE /\ queryEmbedding' = IF outcome = "ok" THEN EmbeddingModel(query)
                                   ELSE WrongDim
              /\ spc' = "select"
              /\ UNCHANGED searchError
    /\ UNCHANGED <<query, limit, similarityThreshold, results, storeQueries>>
    /\ UNCHANGED nonSearchVars

\* lines 217-240: the SELECT and the mapping of its rows; a query vector of
\* another length than 1536 is rejected by the database
SearchSelect ==
    /\ spc = "select"
    /\ storeQueries' = storeQueries + 1
    /\ IF VectorViolation(queryEmbedding)
       THEN /\ spc' = "failed"
            /\ searchError' = "Vector search failed: different vector dimensions"
            /\ UNCHANGED results
       ELSE /\ spc' = "done"
            /\ results' \in RankedLists(queryEmbedding, similarityThreshold, limit)
            /\ UNCHANGED searchError
    /\ UNCHANGED <<query, limit, similarityThreshold, queryEmbedding, embedCalls>>
    /\ UNCHANGED nonSearchVars

\* the caller has taken the list or the error: the search is over
SearchFinish ==
    /\ spc \in {"done", "failed"}
    /\ spc' = "idle"
    /\ query' = <<>>
    /\ limit' = 0
    /\ similarityThreshold' = 0
    /\ queryEmbedding' = 0
    /\ results' = <<>>
    /\ searchError' = ""
    /\ embedCalls' = 0
    /\ storeQueries' = 0
    /\ UNCHANGED nonSearchVars

SearchOff ==
    /\ spc = "idle"
    /\ query = <<>>
    /\ limit = 0
    /\ similarityThreshold = 0
    /\ queryEmbedding = 0
    /\ results = <<>>
    /\ searchError = ""
    /\ embedCalls = 0
    /\ storeQueries = 0

\* ------------------------------------------------------------------------
\* POST /api/ingest and POST /api/upload: requests and responses
\* ------------------------------------------------------------------------
Absent == 0 - 1          \* a field that the request body does not have
DefaultChunkSize == 1000
DefaultChunkOverlap == 100
MinContentLength == 50
IngestMinChunkLength == 50

NoBody == [content |-> <<>>, title |-> "", chunkSize |-> Absent,
           chunkOverlap |-> Absent]
NoResponse == [status |-> 0, error |-> "", id |-> 0, chunksCreated |-> 0,
               totalChunks |-> 0]
ErrorResponse(code, message) ==
    [status |-> code, error |-> message, id |-> 0, chunksCreated |-> 0,
     totalChunks |-> 0]

IngestOff ==
    /\ ipc = "idle"
    /\ body = NoBody
    /\ response = NoResponse

\* a sentence of n characters, and n blanks
Sentence(n) == [k \in 1..n |-> IF k = n THEN "." ELSE "a"]
Blanks(n) == [k \in 1..n |-> " "]

\* "Sentence one. Sentence two. Sentence three."
SentenceOneTwoThree ==
    <<"S", "e", "n", "t", "e", "n", "c", "e", " ", "o", "n", "e", ".", " ",
      "S", "e", "n", "t", "e", "n", "c", "e", " ", "t", "w", "o", ".", " ",
      "S", "e", "n", "t", "e", "n", "c", "e", " ", "t", "h", "r", "e", "e",
      ".">>

\* request contents: none, the three sentences above, one character under
\* the minimum, the minimum, blanks only, two long sentences and a short
\* one, three sentences shorter than the ingest route's minChunkLength
Contents ==
    {<<>>, SentenceOneTwoThree,
     Sentence(MinContentLength - 1), Sentence(MinContentLength),
     Blanks(MinContentLength),
     Sentence(55) \o <<" ">> \o Sentence(55) \o <<" ">> \o Sentence(3),
     Sentence(20) \o <<" ">> \o Sentence(20) \o <<" ">> \o Sentence(20)}
Titles == {"", "Doc A"}
Bodies ==
    [content : Contents, title : Titles, chunkSize : {Absent, 20, 60},
     chunkOverlap : {Absent, 5}]

MAX_FILES_PER_UPLOAD == 5

NoUploadResponse ==
    [status |-> 0, success |-> FALSE, results |-> <<>>, errors |-> <<>>,
     error |-> ""]

UploadOff ==
    /\ upc = "idle"
    /\ uploadedFiles = <<>>
    /\ fi = 0
    /\ fileChunks = <<>>
    /\ uploadResults = <<>>
    /\ uploadErrors = <<>>
    /\ uploadResponse = NoUploadResponse
    /\ firstId = 0

\* the files field of a request: per entry, whether it is a File
UploadLists == UNION {[1..n -> BOOLEAN] : n \in 0..MaxUploadFiles}

\* what the try block of one file does before storeDocument: validateFile,
\* processFile or chunkText throws, or chunkText returns a chunk list
Throwers == {"validateFile", "processFile", "chunkText"}
UploadChunkLists == {<<>>, << <<"a">>, <<"a">> >>}

NoSeed == [called |-> FALSE, closed |-> <<>>, pushed |-> FALSE, overlapText |-> <<>>]

ChunkerOff ==
    /\ text = <<>>
    /\ maxLength = 0
    /\ overlap = 0
    /\ minChunkLength = 0
    /\ cpc = "off"
    /\ sentences = <<>>
    /\ si = 0
    /\ currentChunk = <<>>
    /\ currentLength = 0
    /\ chunks = <<>>
    /\ seed = NoSeed
    /\ seeds = <<>>

StoreOff ==
    /\ documents = {}
    /\ document_chunks = {}
    /\ nextId = 1
    /\ pc = [p \in Procs |-> "idle"]
    /\ input = [p \in Procs |-> NoInput]
    /\ document = [p \in Procs |-> 0]
    /\ i = [p \in Procs |-> 0]
    /\ chunksCreated = [p \in Procs |-> 0]
    /\ embedding = [p \in Procs |-> 0]
    /\ attempted = [p \in Procs |-> {}]
    /\ embedded = [p \in Procs |-> {}]
    /\ result = [p \in Procs |-> NoResult]

NoRow == [source_type |-> "", file_name |-> "", file_type |-> "", file_size |-> "",
          url |-> ""]
NoDocInput == [keys |-> {}, source_type |-> ""]

RowOff ==
    /\ docInput = NoDocInput
    /\ docRow = NoRow

UiOff ==
    /\ displayedFiles = <<>>
    /\ isUploading = FALSE
    /\ filesToUpload = <<>>
    /\ fpos = 0
    /\ fpc = "idle"
    /\ nextFileId = 1

Init ==
    /\ ChunkerOff
    /\ StoreOff
    /\ SearchOff
    /\ IngestOff
    /\ UploadOff
    /\ RowOff
    /\ UiOff

Next ==
    \/ nextId <= MaxId /\ \E p \in Procs : \E inp \in RaceInputs : StoreDocument(p, inp)
    \/ \E p \in Procs : SelectExisting(p)
    \/ \E p \in Procs : DeleteExisting(p)
    \/ \E p \in Procs : InsertDocument(p)
    \/ \E p \in Procs : EmbedChunk(p)
    \/ \E p \in Procs : InsertChunk(p)
    \/ \E p \in Procs : CleanupDocument(p)
    \/ \E p \in Procs : VerifyAndReturn(p)
    \/ \E p \in Procs : Finish(p)
    \/ \E n \in 1..nextId : deleteDocument(n)
    \/ \E n \in 1..nextId : DeleteFile(n)

Spec == Init /\ [][Next]_vars

\* the same operations, one at a time: a call or a deletion starts only when
\* no call is running; a caller may hold its result while the next call runs
Quiet(p) == \A q \in Procs \ {p} : ~ Running(q)

NextSeq ==
    \/ nextId <= MaxSeqId /\ \E p \in Procs : \E inp \in Inputs :
           Quiet(p) /\ StoreDocument(p, inp)
    \/ \E p \in Procs : SelectExisting(p)
    \/ \E p \in Procs : DeleteExisting(p)
    \/ \E p \in Procs : InsertDocument(p)
    \/ \E p \in Procs : EmbedChunk(p)
    \/ \E p \in Procs : InsertChunk(p)
    \/ \E p \in Procs : CleanupDocument(p)
    \/ \E p \in Procs : VerifyAndReturn(p)
    \/ \E p \in Procs : Finish(p)
    \/ (\A q \in Procs : ~ Running(q)) /\ \E n \in 1..nextId : deleteDocument(n)
    \/ (\A q \in Procs : ~ Running(q)) /\ \E n \in 1..nextId : DeleteFile(n)

SpecSeq == Init /\ [][NextSeq]_vars

\* two calls, one after the other, and nothing else: each caller calls once
\* and keeps its result or its error
NextOnce ==
    \/ nextId <= MaxSeqId /\ \E p \in Procs : \E inp \in Inputs :
           Quiet(p) /\ StoreDocument(p, inp)
    \/ \E p \in Procs : SelectExisting(p)
    \/ \E p \in Procs : DeleteExisting(p)
    \/ \E p \in Procs : InsertDocument(p)
    \/ \E p \in Procs : EmbedChunk(p)
    \/ \E p \in Procs : InsertChunk(p)
    \/ \E p \in Procs : CleanupDocument(p)
    \/ \E p \in Procs : VerifyAndReturn(p)

SpecOnce == Init /\ [][NextOnce]_vars

\* searches against a store filled by ingests without url (the ingest route
\* passes url: undefined), one storeDocument call at a time
SearchInputs == {inp \in Inputs : inp.url = NoUrl}

NextSearch ==
    \/ nextId <= MaxSearchId /\ \E inp \in SearchInputs : StoreDocument(1, inp)
    \/ InsertDocument(1)
    \/ EmbedChunk(1)
    \/ InsertChunk(1)
    \/ CleanupDocument(1)
    \/ VerifyAndReturn(1)
    \/ Finish(1)
    \/ \E n \in 1..nextId : deleteDocument(n)
    \/ \E q \in QueryTexts : \E n \in Limits : \E t \in Thresholds :
           vectorSearch(q, n, t)
    \/ SearchEmbed
    \/ SearchSelect
    \/ SearchFinish

SpecSearch == Init /\ [][NextSearch]_vars

\* ------------------------------------------------------------------------
\* storeDocument: the attributes of the inserted documents row (lines 69-103)
\* ------------------------------------------------------------------------
\* the keys of the input object that the INSERT looks at ("url" stands for a
\* url that is not empty) and the values source_type may have: the column
\* is a VARCHAR(20) without CHECK constraint (schema.sql line 18)
DocKeys == {"source_type", "file_name", "file_type", "file_size", "url"}
SourceTypes == {"text", "url", "file", "pdf"}
DocInputs ==
    {inp \in [keys : SUBSET DocKeys, source_type : SourceTypes \cup {""}] :
        (inp.source_type # "") <=> ("source_type" \in inp.keys)}

\* lines 72-75: the source_type of the row
SourceType(inp) ==
    IF "source_type" \in inp.keys THEN inp.source_type
    ELSE IF "file_name" \in inp.keys THEN "file"
    ELSE IF "url" \in inp.keys THEN "url" ELSE "text"

\* lines 93-100: a column gets the value of its key, or NULL ("")
ColumnOf(inp, key) == IF key \in inp.keys THEN key ELSE ""

\* lines 90-103: the values of the INSERT
DocumentRow(inp) ==
    [source_type |-> SourceType(inp),
     file_name |-> ColumnOf(inp, "file_name"),
     file_type |-> ColumnOf(inp, "file_type"),
     file_size |-> ColumnOf(inp, "file_size"),
     url |-> ColumnOf(inp, "url")]

\* lines 90-103: the INSERT of the row for the input of the call
InsertRow ==
    /\ docRow = NoRow
    /\ docRow' = DocumentRow(docInput)
    /\ UNCHANGED docInput
    /\ UNCHANGED nonRowVars

InitRow ==
    /\ ChunkerOff
    /\ StoreOff
    /\ SearchOff
    /\ IngestOff
    /\ UploadOff
    /\ UiOff
    /\ docInput \in DocInputs
    /\ docRow = NoRow

NextRow == InsertRow

SpecRow == InitRow /\ [][NextRow]_vars

\* ------------------------------------------------------------------------
\* The FileUpload component (src/components/file-upload.tsx)
\* ------------------------------------------------------------------------
\* the ids of the files of a list, and the ids of its pending files in order
FileIds(list) == {list[k].id : k \in 1..Len(list)}
IsPending(f) == f.status = "pending"
PendingIds(list) ==
    LET pendingFiles == SelectSeq(list, IsPending)
    IN  [k \in 1..Len(pendingFiles) |-> pendingFiles[k].id]

\* prev.map(f => f.id === file.id ? {...file, status} : f)
SetStatus(list, fileId, status) ==
    [k \in 1..Len(list) |->
        IF list[k].id = fileId THEN [id |-> fileId, status |-> status]
        ELSE list[k]]

\* lines 47-91: n accepted files are dropped; the drop zone is disabled
\* while an upload runs
onDrop(n) ==
    /\ ~ isUploading
    /\ nextFileId + n - 1 <= MaxUiFiles
    /\ displayedFiles' = displayedFiles \o
           [k \in 1..n |-> [id |-> nextFileId + k - 1, status |-> "pending"]]
    /\ nextFileId' = nextFileId + n
    /\ UNCHANGED <<isUploading, filesToUpload, fpos, fpc>>
    /\ UNCHANGED nonUiVars

\* lines 93-95 and 358-367: the remove button of a file, rendered while
\* the file is not uploading (also while other files are uploaded)
removeFile(fileId) ==
    /\ \E k \in 1..Len(displayedFiles) :
           /\ displayedFiles[k].id = fileId
           /\ displayedFiles[k].status # "uploading"
    /\ displayedFiles' = SelectSeq(displayedFiles, LAMBDA f : f.id # fileId)
    /\ UNCHANGED <<isUploading, filesToUpload, fpos, fpc, nextFileId>>
    /\ UNCHANGED nonUiVars

\* lines 181-183 and 313-319: the Clear All button, disabled while an
\* upload runs
clearAll ==
    /\ ~ isUploading
    /\ Len(displayedFiles) > 0
    /\ displayedFiles' = <<>>
    /\ UNCHANGED <<isUploading, filesToUpload, fpos, fpc, nextFileId>>
    /\ UNCHANGED nonUiVars

\* lines 97-130 and 294-297: the upload button, rendered while files are
\* pending and disabled while an upload runs; the pending files of this
\* moment are the files of the batch; the first one is marked uploading and
\* sent to /api/upload before the handler waits for the first time
uploadFiles ==
    /\ ~ isUploading
    /\ fpc = "idle"
    /\ Len(PendingIds(displayedFiles)) > 0
    /\ isUploading' = TRUE
    /\ filesToUpload' = PendingIds(displayedFiles)
    /\ fpos' = 1
    /\ displayedFiles' =
           SetStatus(displayedFiles, PendingIds(displayedFiles)[1], "uploading")
    /\ fpc' = "fetch"
    /\ UNCHANGED nextFileId
    /\ UNCHANGED nonUiVars

\* lines 127-179 and 108-130: the response has arrived or fetch has thrown;
\* the file is marked success or error in the list; without waiting, the
\* next file of the batch is marked uploading and sent, or the batch ends
FetchDone ==
    /\ fpc = "fetch"
    /\ \E status \in {"success", "error"} :
         LET marked == SetStatus(displayedFiles, filesToUpload[fpos], status)
         IN  IF fpos < Len(filesToUpload)
             THEN /\ displayedFiles' =
                         SetStatus(marked, filesToUpload[fpos + 1], "uploading")
                  /\ fpos' = fpos + 1
                  /\ UNCHANGED <<isUploading, filesToUpload, fpc>>
             ELSE /\ displayedFiles' = marked
                  /\ isUploading' = FALSE
                  /\ filesToUpload' = <<>>
                  /\ fpos' = 0
                  /\ fpc' = "idle"
    /\ UNCHANGED nextFileId
    /\ UNCHANGED nonUiVars

NextUi ==
    \/ \E n \in 1..MaxUiFiles : onDrop(n)
    \/ \E fileId \in 1..MaxUiFiles : removeFile(fileId)
    \/ clearAll
    \/ uploadFiles
    \/ FetchDone

SpecUi == Init /\ [][NextUi]_vars

\* ------------------------------------------------------------------------
\* Properties of the store
\* ------------------------------------------------------------------------
DocumentExists(n) == \E d \in documents : d.id = n
ChunksOf(n) == {c \in document_chunks : c.document_id = n}
NonEmptyIndexes(p) ==
    {j \in 1..Len(input[p].chunks) : Trim(input[p].chunks[j]) # <<>>}

\* C1: a call that inserted its Document and got no usable embedding (every
\* embed() failed, or every chunk was empty) ends with an error, and once it
\* has ended neither its Document row nor any Chunk row of it is persisted.
C1_NoEmbeddingNoDocument ==
    \A p \in Procs :
        (pc[p] \in {"done", "failed"} /\ document[p] # 0 /\ embedded[p] = {}) =>
            /\ pc[p] = "failed"
            /\ result[p].status = "error"
            /\ ~ DocumentExists(document[p])
            /\ ChunksOf(document[p]) = {}

C1_Witness ==
    \E p \in Procs :
        /\ pc[p] = "failed"
        /\ document[p] # 0
        /\ Cardinality(attempted[p]) = 2
        /\ embedded[p] = {}
        /\ result[p].error = "Failed to create any chunks for document"

\* C2: when a call for a url returns successfully after an earlier call for the
\* same url returned successfully, there is exactly one Document with that
\* url, it is the second call's, its Chunks are exactly the second call's
\* chunks, the first id is not retrievable and no search returns a chunk of
\* the first call.
C2_After(p, q) ==
    /\ SelectByUrl(input[q].url) = {[id |-> result[q].id, url |-> input[q].url]}
    /\ result[q].id # result[p].id
    /\ ChunksOf(result[q].id) = {ChunkRow(q, j) : j \in embedded[q]}
    /\ Cardinality(ChunksOf(result[q].id)) = result[q].chunksCreated
    /\ ChunksOf(result[p].id) = {}
    /\ getDocumentById(result[p].id) = NoDocument
    /\ \A qt \in QueryTexts : \A n \in Limits : \A t \in Thresholds :
          \A r \in SearchOutcomes(qt, n, t) :
              \A k \in 1..Len(r) : r[k].document_id # result[p].id

C2_SecondIngestReplaces ==
    [][\A p, q \in Procs :
          (/\ p # q
           /\ pc[p] = "done"
           /\ pc[q] = "verify"
           /\ pc'[q] = "done"
           /\ input[q].url # NoUrl
           /\ input[p].url = input[q].url) => C2_After(p, q)']_vars

C2_Witness ==
    \E p, q \in Procs :
        /\ pc[p] = "done" /\ pc[q] = "done"
        /\ input[p].url # NoUrl /\ input[p].url = input[q].url
        /\ result[p].id < result[q].id
        /\ input[p].chunks # input[q].chunks
        /\ DocumentExists(result[q].id)
        /\ ~ DocumentExists(result[p].id)
        /\ Cardinality(ChunksOf(result[q].id)) = 2

\* C3: at most one Document has a given non-empty url, in every state reached
\* by interleaving the statements of concurrent calls.
C3_UrlUnique ==
    \A d1, d2 \in documents :
        (d1.url # NoUrl /\ d1.url = d2.url) => d1.id = d2.id

\* both calls passed the SELECT; the second INSERT was rejected
C3_Witness ==
    \E p, q \in Procs :
        /\ p # q
        /\ input[p].url # NoUrl /\ input[p].url = input[q].url
        /\ document[p] # 0 /\ DocumentExists(document[p])
        /\ pc[q] = "failed"
        /\ result[q].error = "duplicate key value violates unique constraint"

\* C4 as stated: every persisted Document has at least one Chunk in every
\* state, the states between the statements of a running call included.
C4_AlwaysHasChunk ==
    \A d \in documents : ChunksOf(d.id) # {}

\* C4 as amended: every persisted Document whose storeDocument call is no
\* longer running has at least one Chunk.
C4_ReturnedHasChunk ==
    \A d \in documents :
        (\A p \in Procs : Running(p) => document[p] # d.id) => ChunksOf(d.id) # {}

C4_Witness ==
    \E p \in Procs :
        /\ pc[p] = "done"
        /\ DocumentExists(document[p])
        /\ Cardinality(ChunksOf(document[p])) = 1
        /\ Cardinality(attempted[p]) = 2

\* C5: every Chunk's document_id refers to an existing Document.
C5_NoOrphanChunk ==
    \A c \in document_chunks : DocumentExists(c.document_id)

\* a Document that had Chunks was deleted under a call that is still running
C5_Witness ==
    \E p \in Procs :
        /\ Running(p)
        /\ chunksCreated[p] > 0
        /\ ~ DocumentExists(document[p])
        /\ ChunksOf(document[p]) = {}
        /\ pc[p] = "insertChunk"

\* C6: a failed embed() or chunk INSERT does not end the loop: the non-empty
\* chunks are attempted in order, one after the other, the zero-chunks check
\* comes only after all of them, and every chunk that was embedded and
\* inserted is a row of the call's Document while that Document exists.
C6_FailureIsolated ==
    \A p \in Procs :
        /\ (document[p] # 0 /\ pc[p] \in {"embed", "insertChunk"}) =>
              attempted[p] = {j \in NonEmptyIndexes(p) :
                                j < i[p] \/ (j = i[p] /\ pc[p] = "insertChunk")}
        /\ (document[p] # 0 /\ pc[p] \in {"cleanup", "verify", "done", "failed"}) =>
              attempted[p] = NonEmptyIndexes(p)
        /\ (document[p] # 0 /\ DocumentExists(document[p])) =>
              /\ \A j \in embedded[p] :
                    (j = i[p] /\ pc[p] = "insertChunk") \/ ChunkRow(p, j) \in document_chunks
              /\ Cardinality(ChunksOf(document[p])) = chunksCreated[p]

\* the first chunk failed, the second was still embedded and inserted
C6_Witness ==
    \E p \in Procs :
        /\ pc[p] = "done"
        /\ attempted[p] = {1, 2}
        /\ embedded[p] = {2}
        /\ ChunkRow(p, 2) \in document_chunks
        /\ chunksCreated[p] = 1

\* ------------------------------------------------------------------------
\* The chunker
\* ------------------------------------------------------------------------
Alphabet == {"a", ".", " "}
Texts == UNION {[1..n -> Alphabet] : n \in 0..MaxTextLen}

IsSentenceEnd(c) == c \in {".", "!", "?"}

\* variant: the cut is one character short
Substring0Short(s, n) ==
    IF n <= 1 THEN <<>>
    ELSE IF n > Len(s) THEN s
    ELSE SubSeq(s, 1, n - 1)

\* String.prototype.substring(0, n): n is clamped to 0..length
Substring0(s, n) ==
    IF n <= 0 THEN <<>>
    ELSE IF n >= Len(s) THEN s
    ELSE SubSeq(s, 1, n)

\* s.split(/(?<=[.!?])\s+/): cut at every run of whitespace that follows a
\* sentence end; the run is dropped, an empty last piece is kept
RECURSIVE SplitSentences(_)
SplitSentences(s) ==
    LET cuts == {k \in 2..Len(s) : IsSpace(s[k]) /\ IsSentenceEnd(s[k - 1])}
    IN  IF cuts = {} THEN <<s>>
        ELSE LET k == Min(cuts)
                 after == {j \in k..Len(s) : ~ IsSpace(s[j])}
                 e == IF after = {} THEN Len(s) + 1 ELSE Min(after)
             IN  <<SubSeq(s, 1, k - 1)>> \o SplitSentences(SubSeq(s, e, Len(s)))

NonBlank(s) == Trim(s) # <<>>

\* the backward loop of getOverlapText (lines 97-105)
RECURSIVE OverlapWalk(_, _, _, _, _)
OverlapWalk(parts, k, acc, accLength, overlapLength) ==
    IF k < 1 THEN acc
    ELSE LET sentence == parts[k]
         IN  IF accLength + Len(sentence) <= overlapLength
             THEN LET newAcc == sentence \o
                                  (IF acc # <<>> THEN <<" ">> \o acc ELSE <<>>)
                  IN  OverlapWalk(parts, k - 1, newAcc,
                                  accLength + Len(sentence)
                                    + (IF newAcc # sentence THEN 1 ELSE 0),
                                  overlapLength)
             ELSE acc

\* variant: the budget test is < instead of <=
getOverlapTextStrict(t, overlapLength) ==
    IF t = <<>> \/ overlapLength <= 0 THEN <<>>
    ELSE LET parts == SplitSentences(t)
         IN  OverlapWalk(parts, Len(parts), <<>>, 0, overlapLength - 1)

getOverlapText(t, overlapLength) ==
    IF t = <<>> \/ overlapLength <= 0 THEN <<>>
    ELSE LET parts == SplitSentences(t)
         IN  OverlapWalk(parts, Len(parts), <<>>, 0, overlapLength)

\* lines 21-36: the blank test, the split and the filter
ChunkCall ==
    /\ cpc = "call"
    /\ IF Trim(text) = <<>>
       THEN /\ cpc' = "done"
            /\ chunks' = <<>>
            /\ UNCHANGED <<sentences, si>>
       ELSE LET filtered == SelectSeq(SplitSentences(text), NonBlank)
            IN  /\ sentences' = filtered
                /\ IF Len(filtered) = 0
                   THEN /\ cpc' = "done"
                        /\ chunks' = <<Substring0(text, maxLength)>>
                        /\ UNCHANGED si
                   ELSE /\ cpc' = "loop"
                        /\ si' = 1
                        /\ chunks' = <<>>
    /\ currentChunk' = <<>>
    /\ currentLength' = 0
    /\ UNCHANGED <<text, maxLength, overlap, minChunkLength, seed, seeds>>
    /\ UNCHANGED nonChunkVars

\* variant: the sentence replaces the current chunk
AddSentenceReplacing(chunk, sentence) == sentence

\* line 61: currentChunk += ' ' + sentence
AddSentence(chunk, sentence) == chunk \o <<" ">> \o sentence

\* variant: every candidate chunk is kept
MeetsMinimumAlways(c, m) == TRUE

\* lines 45 and 71: currentChunk.trim().length >= minChunkLength
MeetsMinimum(c, m) == Len(Trim(c)) >= m

\* lines 38-68: one iteration of the loop over the sentences
ChunkStep ==
    /\ cpc = "loop"
    /\ LET sentence == Trim(sentences[si])
           sentenceLength == Len(sentence)
       IN  IF currentLength + sentenceLength > maxLength /\ Len(currentChunk) > 0
           THEN LET pushed == MeetsMinimum(currentChunk, minChunkLength)
                    chunks1 == IF pushed THEN Append(chunks, Trim(currentChunk))
                               ELSE chunks
                    useOverlap == overlap > 0 /\ Len(chunks1) > 0
                    overlapText == getOverlapText(currentChunk, overlap)
                IN  /\ chunks' = chunks1
                    /\ seeds' = IF pushed THEN Append(seeds, seed) ELSE seeds
                    /\ seed' = [called |-> useOverlap,
                                closed |-> currentChunk,
                                pushed |-> pushed,
                                overlapText |->
                                    IF useOverlap THEN overlapText ELSE <<>>]
                    /\ IF useOverlap
                       THEN /\ currentChunk' =
                                 overlapText
                                   \o (IF overlapText # <<>> THEN <<" ">> ELSE <<>>)
                                   \o sentence
                            /\ currentLength' = Len(currentChunk')
                       ELSE /\ currentChunk' = sentence
                            /\ currentLength' = sentenceLength
           ELSE /\ IF currentChunk # <<>>
                   THEN /\ currentChunk' = AddSentence(currentChunk, sentence)
                        /\ currentLength' = currentLength + 1 + sentenceLength
                   ELSE /\ currentChunk' = sentence
                        /\ currentLength' = sentenceLength
                /\ UNCHANGED <<chunks, seed, seeds>>
    /\ si' = si + 1
    /\ cpc' = IF si + 1 > Len(sentences) THEN "flush" ELSE "loop"
    /\ UNCHANGED <<text, maxLength, overlap, minChunkLength, sentences>>
    /\ UNCHANGED nonChunkVars

\* lines 70-80: the last chunk, the fallback and the return
ChunkReturn ==
    /\ cpc = "flush"
    /\ LET pushed == MeetsMinimum(currentChunk, minChunkLength)
           chunks1 == IF pushed THEN Append(chunks, Trim(currentChunk))
                      ELSE chunks
       IN  /\ chunks' = IF Len(chunks1) = 0 /\ Len(Trim(text)) > 0
                        THEN <<Substring0(Trim(text), maxLength)>>
                        ELSE chunks1
           /\ seeds' = IF pushed THEN Append(seeds, seed) ELSE seeds
    /\ cpc' = "done"
    /\ UNCHANGED <<text, maxLength, overlap, minChunkLength, sentences, si,
                   currentChunk, currentLength, seed>>
    /\ UNCHANGED nonChunkVars

InitChunk ==
    /\ StoreOff
    /\ SearchOff
    /\ IngestOff
    /\ UploadOff
    /\ RowOff
    /\ UiOff
    /\ text \in Texts
    /\ maxLength \in 0..MaxMaxLength
    /\ overlap \in 0..MaxOverlap
    /\ minChunkLength \in 0..MaxMinChunk
    /\ cpc = "call"
    /\ sentences = <<>>
    /\ si = 0
    /\ currentChunk = <<>>
    /\ currentLength = 0
    /\ chunks = <<>>
    /\ seed = NoSeed
    /\ seeds = <<>>

NextChunk ==
    \/ ChunkCall
    \/ ChunkStep
    \/ ChunkReturn

SpecChunk == InitChunk /\ [][NextChunk]_vars

\* ------------------------------------------------------------------------
\* POST /api/ingest (src/app/api/ingest/route.ts)
\* ------------------------------------------------------------------------
\* variant: only the content is required
MissingFieldContentOnly(b) == b.content = <<>>

\* line 11: !content || !title
MissingField(b) == b.content = <<>> \/ b.title = ""

\* variant: no minimum length
TooShortOff(c) == FALSE

\* line 19: content.length < 50
TooShort(c) == Len(c) < MinContentLength

\* line 8: the defaults of chunkSize and chunkOverlap
WithDefault(v, default) == IF v = Absent THEN default ELSE v

\* lines 7-39: the body, the two validations and the call of chunkContent
IngestPost(b) ==
    /\ ipc = "idle"
    /\ body' = b
    /\ IF MissingField(b)
       THEN /\ ipc' = "done"
            /\ response' = ErrorResponse(400, "Both content and title are required")
            /\ UNCHANGED chunkVars
       ELSE IF TooShort(b.content)
       THEN /\ ipc' = "done"
            /\ response' = ErrorResponse(400, "Content must be at least 50 characters long")
            /\ UNCHANGED chunkVars
       ELSE /\ ipc' = "chunk"
            /\ response' = NoResponse
            /\ text' = b.content
            /\ maxLength' = WithDefault(b.chunkSize, DefaultChunkSize)
            /\ overlap' = WithDefault(b.chunkOverlap, DefaultChunkOverlap)
            /\ minChunkLength' = IngestMinChunkLength
            /\ cpc' = "call"
            /\ sentences' = <<>>
            /\ si' = 0
            /\ currentChunk' = <<>>
            /\ currentLength' = 0
            /\ chunks' = <<>>
            /\ seed' = NoSeed
            /\ seeds' = <<>>
    /\ UNCHANGED <<storeVars, searchVars, uploadVars, rowVars, uiVars>>

\* lines 41-50: the test of the chunk list returned by chunkContent
IngestChunked ==
    /\ ipc = "chunk"
    /\ cpc = "done"
    /\ IF Len(chunks) = 0
       THEN /\ ipc' = "done"
            /\ response' = ErrorResponse(400, "No valid chunks could be created from the content")
       ELSE /\ ipc' = "store"
            /\ UNCHANGED response
    /\ UNCHANGED <<body, storeVars, chunkVars, searchVars, uploadVars, rowVars,
                   uiVars>>

\* lines 26-31 and 52-55: the object passed to storeDocument
IngestInput == [url |-> NoUrl, hasChunks |-> TRUE, chunks |-> chunks]

\* lines 52-55: the call of storeDocument
IngestStore ==
    /\ ipc = "store"
    /\ StoreDocument(1, IngestInput)

\* lines 57-76: the response, from the stored document or from the error
IngestRespond ==
    /\ ipc = "store"
    /\ pc[1] \in {"done", "failed"}
    /\ ipc' = "done"
    /\ response' =
          IF result[1].status = "ok"
          THEN [status |-> 200, error |-> "", id |-> result[1].id,
                chunksCreated |-> result[1].chunksCreated,
                totalChunks |-> Len(chunks)]
          ELSE ErrorResponse(500, result[1].error)
    /\ UNCHANGED <<body, storeVars, chunkVars, searchVars, uploadVars, rowVars,
                   uiVars>>

\* the response is sent: the handler and its calls are over
IngestFinish ==
    /\ ipc = "done"
    /\ pc[1] = "idle"
    /\ ipc' = "idle"
    /\ body' = NoBody
    /\ response' = NoResponse
    /\ text' = <<>>
    /\ maxLength' = 0
    /\ overlap' = 0
    /\ minChunkLength' = 0
    /\ cpc' = "off"
    /\ sentences' = <<>>
    /\ si' = 0
    /\ currentChunk' = <<>>
    /\ currentLength' = 0
    /\ chunks' = <<>>
    /\ seed' = NoSeed
    /\ seeds' = <<>>
    /\ UNCHANGED <<storeVars, searchVars, uploadVars, rowVars, uiVars>>

NextIngest ==
    \/ nextId <= MaxIngestId /\ \E b \in Bodies : IngestPost(b)
    \/ ChunkCall
    \/ ChunkStep
    \/ ChunkReturn
    \/ IngestChunked
    \/ IngestStore
    \/ InsertDocument(1)
    \/ EmbedChunk(1)
    \/ InsertChunk(1)
    \/ CleanupDocument(1)
    \/ VerifyAndReturn(1)
    \/ IngestRespond
    \/ ipc = "done" /\ Finish(1)
    \/ IngestFinish

SpecIngest == Init /\ [][NextIngest]_vars

\* ------------------------------------------------------------------------
\* POST /api/ingest, the version that also takes a url (unnamed/part_003)
\* ------------------------------------------------------------------------
\* request bodies of this version: a url, a content, or both
UrlBodies ==
    [url : {NoUrl} \cup Urls,
     content : {<<>>, Sentence(20), Sentence(55) \o <<" ">> \o Sentence(55)},
     title : Titles, chunkSize : {Absent, 60}, chunkOverlap : {Absent, 5}]

\* what scrapeUrl (scraper.ts lines 18-36) returns for a page
Pages ==
    [title : {"", "Untitled Document", "Doc A"},
     content : {Sentence(MinContentLength - 1),
                Sentence(55) \o <<" ">> \o Sentence(55)}]

\* scraper.ts lines 203-215: the content has 50 characters and a real title
validateContent(page) ==
    /\ ~ (Len(page.content) < MinContentLength)
    /\ ~ (page.title = "" \/ page.title = "Untitled Document")

\* part_003 lines 50-56: the call of chunkContent
IngestChunkCall(b, content) ==
    /\ ipc' = "chunk"
    /\ response' = NoResponse
    /\ text' = content
    /\ maxLength' = WithDefault(b.chunkSize, DefaultChunkSize)
    /\ overlap' = WithDefault(b.chunkOverlap, DefaultChunkOverlap)
    /\ minChunkLength' = IngestMinChunkLength
    /\ cpc' = "call"
    /\ sentences' = <<>>
    /\ si' = 0
    /\ currentChunk' = <<>>
    /\ currentLength' = 0
    /\ chunks' = <<>>
    /\ seed' = NoSeed
    /\ seeds' = <<>>

\* part_003 lines 7-56: the body, the scrape of the url or the raw content,
\* their validation and the call of chunkContent; scrapeUrl throws or
\* returns a page
IngestUrlPost(b) ==
    /\ ipc = "idle"
    /\ body' = b
    /\ IF b.url = NoUrl /\ b.content = <<>>
       THEN /\ ipc' = "done"
            /\ response' = ErrorResponse(400, "Either URL or content is required")
            /\ UNCHANGED chunkVars
       ELSE IF b.url # NoUrl
       THEN \/ /\ ipc' = "done"
               /\ response' = ErrorResponse(500, "Failed to scrape URL")
               /\ UNCHANGED chunkVars
            \/ \E page \in Pages :
                  IF ~ validateContent(page)
                  THEN /\ ipc' = "done"
                       /\ response' = ErrorResponse(400, "Scraped content is too short or invalid")
                       /\ UNCHANGED chunkVars
                  ELSE IngestChunkCall(b, page.content)
       ELSE IF b.title = ""
       THEN /\ ipc' = "done"
            /\ response' = ErrorResponse(400, "Title is required when providing raw content")
            /\ UNCHANGED chunkVars
       ELSE IngestChunkCall(b, b.content)
    /\ UNCHANGED <<storeVars, searchVars, uploadVars, rowVars, uiVars>>

\* part_003 line 69: storeDocument(documentContent, chunks): the first
\* argument is the scraped or raw document, which has no chunks key; the
\* second argument is not a parameter of storeDocument
IngestUrlInput == [url |-> body.url, hasChunks |-> FALSE, chunks |-> <<>>]

\* part_003 line 69: the call of storeDocument
IngestUrlStore ==
    /\ ipc = "store"
    /\ StoreDocument(1, IngestUrlInput)

\* part_003 lines 58-63 and 71-91 are the chunk-list test and the response
\* of the other version (IngestChunked, IngestRespond)
NextIngestUrl ==
    \/ \E b \in UrlBodies : IngestUrlPost(b)
    \/ ChunkCall
    \/ ChunkStep
    \/ ChunkReturn
    \/ IngestChunked
    \/ IngestUrlStore
    \/ IngestRespond
    \/ ipc = "done" /\ Finish(1)
    \/ IngestFinish

SpecIngestUrl == Init /\ [][NextIngestUrl]_vars

\* ------------------------------------------------------------------------
\* POST /api/upload (src/app/api/upload/route.ts)
\* ------------------------------------------------------------------------
\* lines 14-32: the files of the form and the two tests of their number
UploadPost(fs) ==
    /\ upc = "idle"
    /\ uploadedFiles' = fs
    /\ firstId' = nextId
    /\ fileChunks' = <<>>
    /\ uploadResults' = <<>>
    /\ uploadErrors' = <<>>
    /\ IF Len(fs) = 0
       THEN /\ upc' = "done"
            /\ fi' = 0
            /\ uploadResponse' =
                  [NoUploadResponse EXCEPT !.status = 400,
                                           !.error = "No files provided"]
       ELSE IF Len(fs) > MAX_FILES_PER_UPLOAD
       THEN /\ upc' = "done"
            /\ fi' = 0
            /\ uploadResponse' =
                  [NoUploadResponse EXCEPT !.status = 400,
                                           !.error = "Maximum 5 files allowed per upload"]
       ELSE /\ upc' = "loop"
            /\ fi' = 1
            /\ uploadResponse' = NoUploadResponse
    /\ UNCHANGED <<storeVars, chunkVars, searchVars, ingestVars, rowVars, uiVars>>

\* variant: the first failed file ends the loop
AfterFileErrorAbort(k, n) == n + 1

\* lines 82-89: after the catch block the loop goes on with the next file
AfterFileError(k, n) == k + 1

\* lines 34-59: one file up to the call of storeDocument: an entry that is
\* not a File, an exception in the try block, or the chunks of the file
UploadFile ==
    /\ upc = "loop"
    /\ fi <= Len(uploadedFiles)
    /\ pc[1] = "idle"
    /\ IF ~ uploadedFiles[fi]
       THEN /\ uploadErrors' = Append(uploadErrors,
                                  [file |-> fi, fileName |-> 0,
                                   error |-> "Invalid file format"])
            /\ fi' = fi + 1
            /\ UNCHANGED <<upc, fileChunks>>
       ELSE \/ \E thrower \in Throwers :
                 /\ uploadErrors' = Append(uploadErrors,
                                       [file |-> fi, fileName |-> fi,
                                        error |-> thrower])
                 /\ fi' = AfterFileError(fi, Len(uploadedFiles))
                 /\ UNCHANGED <<upc, fileChunks>>
            \/ \E list \in UploadChunkLists :
                 /\ fileChunks' = list
                 /\ upc' = "store"
                 /\ UNCHANGED <<fi, uploadErrors>>
    /\ UNCHANGED <<uploadedFiles, uploadResults, uploadResponse, firstId>>
    /\ UNCHANGED <<storeVars, chunkVars, searchVars, ingestVars, rowVars, uiVars>>

\* lines 62-74: the object passed to storeDocument
UploadInput == [url |-> NoUrl, hasChunks |-> TRUE, chunks |-> fileChunks]

\* lines 62-74: the call of storeDocument
UploadStore ==
    /\ upc = "store"
    /\ StoreDocument(1, UploadInput)

\* lines 62-88: storeDocument has returned (an entry of results) or thrown
\* (an entry of errors)
UploadStored ==
    /\ upc = "store"
    /\ pc[1] \in {"done", "failed"}
    /\ upc' = "loop"
    /\ IF result[1].status = "ok"
       THEN /\ uploadResults' = Append(uploadResults,
                                   [file |-> fi, fileName |-> fi,
                                    documentId |-> result[1],
                                    chunksCreated |-> Len(fileChunks)])
            /\ fi' = fi + 1
            /\ UNCHANGED uploadErrors
       ELSE /\ uploadErrors' = Append(uploadErrors,
                                  [file |-> fi, fileName |-> fi,
                                   error |-> result[1].error])
            /\ fi' = AfterFileError(fi, Len(uploadedFiles))
            /\ UNCHANGED uploadResults
    /\ UNCHANGED <<uploadedFiles, fileChunks, uploadResponse, firstId>>
    /\ UNCHANGED <<storeVars, chunkVars, searchVars, ingestVars, rowVars, uiVars>>

\* lines 91-98: the response after the last file
UploadReturn ==
    /\ upc = "loop"
    /\ fi > Len(uploadedFiles)
    /\ upc' = "done"
    /\ uploadResponse' =
          [status |-> 200, success |-> Len(uploadResults) > 0,
           results |-> uploadResults, errors |-> uploadErrors, error |-> ""]
    /\ UNCHANGED <<uploadedFiles, fi, fileChunks, uploadResults, uploadErrors,
                   firstId>>
    /\ UNCHANGED <<storeVars, chunkVars, searchVars, ingestVars, rowVars, uiVars>>

\* the response is sent: the handler and its calls are over
UploadFinish ==
    /\ upc = "done"
    /\ pc[1] = "idle"
    /\ upc' = "idle"
    /\ uploadedFiles' = <<>>
    /\ fi' = 0
    /\ fileChunks' = <<>>
    /\ uploadResults' = <<>>
    /\ uploadErrors' = <<>>
    /\ uploadResponse' = NoUploadResponse
    /\ firstId' = 0
    /\ UNCHANGED <<storeVars, chunkVars, searchVars, ingestVars, rowVars, uiVars>>

NextUpload ==
    \/ nextId <= MaxUploadId /\ \E fs \in UploadLists : UploadPost(fs)
    \/ UploadFile
    \/ UploadStore
    \/ InsertDocument(1)
    \/ EmbedChunk(1)
    \/ InsertChunk(1)
    \/ CleanupDocument(1)
    \/ VerifyAndReturn(1)
    \/ UploadStored
    \/ upc # "store" /\ Finish(1)
    \/ UploadReturn
    \/ UploadFinish

SpecUpload == Init /\ [][NextUpload]_vars

\* the rows of the document that call p inserted
RowsOf(p) == ChunksOf(document[p])

\* C23: within one Document the chunk_index values of the persisted Chunks
\* are pairwise distinct, each is the position (counted from 0) of its chunk
\* in the input chunk list, and they increase in the order of insertion,
\* which is the order of the list: every row has an index below the
\* position the loop has reached; gaps are allowed.
C23_IndexIsPosition ==
    \A p \in Procs :
        (pc[p] # "idle" /\ document[p] # 0) =>
            /\ \A c \in RowsOf(p) :
                   /\ c.chunk_index + 1 \in 1..Len(input[p].chunks)
                   /\ c.content = input[p].chunks[c.chunk_index + 1]
                   /\ c.chunk_index + 1 \in attempted[p]
                   /\ Running(p) => c.chunk_index + 1 < i[p]
            /\ \A c, d \in RowsOf(p) :
                   c # d => c.chunk_index # d.chunk_index

\* one call has returned with two rows at the positions 0 and 1, the other
\* with one row at position 1 after a skipped or failed first chunk
C23_Witness ==
    \E p, q \in Procs :
        /\ pc[p] = "done"
        /\ pc[q] = "done"
        /\ {c.chunk_index : c \in RowsOf(p)} = {0, 1}
        /\ {c.chunk_index : c \in RowsOf(q)} = {1}

\* C25: storeDocument never calls the embedding client for a chunk that is
\* empty after trimming, never persists one and never counts one: every
\* persisted Chunk has content that is not empty after trimming, and the
\* count of a call is at most the number of its chunks that are not empty.
C25_EmptyChunksSkipped ==
    /\ \A p \in Procs :
           /\ \A j \in attempted[p] : Trim(input[p].chunks[j]) # <<>>
           /\ pc[p] \in {"embed", "insertChunk"} =>
                  Trim(input[p].chunks[i[p]]) # <<>>
           /\ chunksCreated[p] <= Cardinality(NonEmptyIndexes(p))
           /\ pc[p] = "done" =>
                  result[p].chunksCreated <= Cardinality(NonEmptyIndexes(p))
    /\ \A c \in document_chunks : Trim(c.content) # <<>>

\* a call whose list has a blank chunk and a chunk of text has returned with
\* one row
C25_Witness ==
    \E p \in Procs :
        /\ pc[p] = "done"
        /\ \E j \in 1..Len(input[p].chunks) : Trim(input[p].chunks[j]) = <<>>
        /\ result[p].chunksCreated = 1
        /\ Cardinality(RowsOf(p)) = 1

\* C26: every Document persisted by storeDocument has a source kind that is
\* one of text, url or file, and has file attributes (file_name, file_type,
\* file_size) only when its source kind is file, whatever the input.
C26_SourceKindAndFileAttributes ==
    docRow # NoRow =>
        /\ docRow.source_type \in {"text", "url", "file"}
        /\ docRow.source_type # "file" =>
               /\ docRow.file_name = ""
               /\ docRow.file_type = ""
               /\ docRow.file_size = ""

\* C27: at the moment storeDocument returns {id, chunksCreated}, a Document
\* with that id exists and has exactly chunksCreated Chunks, under any
\* interleaving with other storeDocument calls and with deletions.
C27_ReturnedDocumentExists ==
    [][\A p \in Procs :
          (pc[p] = "verify" /\ pc'[p] = "done") =>
              /\ \E d \in documents' : d.id = result'[p].id
              /\ Cardinality({c \in document_chunks' :
                                 c.document_id = result'[p].id})
                     = result'[p].chunksCreated]_vars

\* C28: a storeDocument call that failed has left the persisted Documents
\* and Chunks as they were before it. With two calls made one after the
\* other and no deletion: when one call has failed, the store holds exactly
\* what the other call stored (nothing when the other call failed too or
\* was not made), also when both calls were for the same url.
C28_FailedCallLeavesStore ==
    \A p, q \in Procs :
        (p # q /\ pc[p] = "failed" /\ ~ Running(q)) =>
            IF pc[q] = "done"
            THEN /\ documents = {[id |-> result[q].id, url |-> input[q].url]}
                 /\ \A c \in document_chunks : c.document_id = result[q].id
                 /\ Cardinality(document_chunks) = result[q].chunksCreated
            ELSE /\ documents = {}
                 /\ document_chunks = {}

\* ------------------------------------------------------------------------
\* Properties of the chunker
\* ------------------------------------------------------------------------
IsPrefix(a, b) == Len(a) <= Len(b) /\ SubSeq(b, 1, Len(a)) = a
IsSuffix(a, b) == Len(a) <= Len(b) /\ SubSeq(b, Len(b) - Len(a) + 1, Len(b)) = a

RECURSIVE JoinWithSpace(_)
JoinWithSpace(parts) ==
    IF parts = <<>> THEN <<>>
    ELSE IF Len(parts) = 1 THEN parts[1]
    ELSE parts[1] \o <<" ">> \o JoinWithSpace(Tail(parts))

\* t is made of the last n sentences of c, for some n >= 0, in their order
IsTrailingSentences(t, c) ==
    LET parts == SplitSentences(c)
    IN  \E n \in 0..Len(parts) :
            t = JoinWithSpace(SubSeq(parts, Len(parts) - n + 1, Len(parts)))

\* C7 as stated: for a text that is not blank, chunkContent returns a
\* non-empty list of non-empty strings, whatever maxLength, overlap and
\* minChunkLength are.
C7_NonEmptyChunks ==
    (cpc = "done" /\ Trim(text) # <<>>) =>
        /\ Len(chunks) > 0
        /\ \A k \in 1..Len(chunks) : chunks[k] # <<>>

\* C7 as amended: the same for every maxLength >= 1 (with maxLength = 0 the
\* fallback chunk is cut to the empty string).
C7_NonEmptyChunksPositiveMax ==
    (cpc = "done" /\ Trim(text) # <<>> /\ maxLength >= 1) =>
        /\ Len(chunks) > 0
        /\ \A k \in 1..Len(chunks) : Trim(chunks[k]) # <<>>

\* the fallback chunk: every candidate was under minChunkLength, the trimmed
\* text was cut to maxLength
C7_Witness ==
    /\ cpc = "done"
    /\ maxLength = 1
    /\ Len(sentences) = 2
    /\ seeds = <<>>
    /\ chunks = <<Substring0(Trim(text), maxLength)>>
    /\ Len(Trim(text)) > maxLength

\* C8: no returned chunk is longer than maxLength, except the single chunk
\* returned for a text without any sentence boundary.
C8_ChunkWithinMaxLength ==
    cpc = "done" =>
        \A k \in 1..Len(chunks) :
            \/ Len(chunks[k]) <= maxLength
            \/ (Len(chunks) = 1 /\ Len(sentences) <= 1)

\* C9 as stated: with overlap > 0 and two or more chunks returned, every
\* chunk after the first begins with non-empty text that ends its predecessor.
C9_EveryChunkOverlaps ==
    (cpc = "done" /\ overlap > 0 /\ Len(chunks) >= 2) =>
        \A k \in 1..(Len(chunks) - 1) :
            \E n \in 1..Len(chunks[k + 1]) :
                IsSuffix(SubSeq(chunks[k + 1], 1, n), chunks[k])

\* C9 as amended: with overlap > 0 and two or more chunks returned, a chunk
\* that was started when its predecessor was closed begins with non-empty
\* whole sentences that end the predecessor, provided the predecessor's last
\* sentence is no longer than overlap.
LastSentence(c) == SplitSentences(c)[Len(SplitSentences(c))]

C9_OverlapWhenSentenceFits ==
    (cpc = "done" /\ overlap > 0 /\ Len(chunks) >= 2) =>
        \A k \in 1..(Len(chunks) - 1) :
            (/\ seeds[k + 1].pushed
             /\ seeds[k + 1].closed = chunks[k]
             /\ Len(LastSentence(chunks[k])) <= overlap) =>
                \E n \in 1..Len(chunks[k + 1]) :
                    /\ IsSuffix(SubSeq(chunks[k + 1], 1, n), chunks[k])
                    /\ IsTrailingSentences(SubSeq(chunks[k + 1], 1, n), chunks[k])
                    /\ n < Len(chunks[k + 1])
                    /\ chunks[k + 1][n + 1] = " "

C9_Witness ==
    /\ cpc = "done"
    /\ overlap > 0
    /\ Len(chunks) = 2
    /\ seeds[2].pushed
    /\ seeds[2].closed = chunks[1]
    /\ Len(LastSentence(chunks[1])) <= overlap
    /\ Len(SplitSentences(chunks[1])) = 2

\* C10: the overlap prefix taken from a closed chunk is made of whole trailing
\* sentences of that chunk, in their order, and is at most overlap long.
C10_OverlapPrefixBounded ==
    seed.called =>
        /\ IsTrailingSentences(seed.overlapText, seed.closed)
        /\ Len(seed.overlapText) <= overlap

\* ------------------------------------------------------------------------
\* Properties of POST /api/ingest
\* ------------------------------------------------------------------------
\* the request {title: "Doc A", content: "Sentence one. Sentence two.
\* Sentence three.", chunkSize: 20}, with or without chunkOverlap: 5
IsScenario(b) ==
    /\ b.content = SentenceOneTwoThree
    /\ b.title = "Doc A"
    /\ b.chunkSize = 20

\* C11 as stated: the request above, all embeddings succeeding, is answered
\* with 3 chunks of at most 20 characters, each but the first beginning
\* with the overlap text of its predecessor, and chunksCreated = 3.
C11_ScenarioThreeChunks ==
    (ipc = "done" /\ IsScenario(body) /\ attempted[1] = embedded[1]) =>
        /\ response.status = 200
        /\ response.totalChunks = 3
        /\ response.chunksCreated = 3
        /\ Len(chunks) = 3
        /\ \A k \in 1..Len(chunks) : Len(chunks[k]) <= 20
        /\ \A k \in 2..Len(chunks) :
               IsPrefix(getOverlapText(chunks[k - 1], overlap), chunks[k])

\* C11 as amended: the request above is rejected with status 400, its
\* content being shorter than 50 characters; chunkContent and
\* storeDocument are not called and no chunksCreated is reported.
C11_ScenarioRejected ==
    (ipc = "done" /\ IsScenario(body)) =>
        /\ response =
              ErrorResponse(400, "Content must be at least 50 characters long")
        /\ cpc = "off"
        /\ pc[1] = "idle"
        /\ attempted[1] = {}

\* the request has been answered
C11_Witness ==
    /\ ipc = "done"
    /\ IsScenario(body)
    /\ body.chunkOverlap = 5
    /\ response.status = 400

\* a request without content, without title or with less than 50 characters
Invalid(b) == b.content = <<>> \/ b.title = "" \/ Len(b.content) < 50

C22_UrlIngested ==
    (/\ ipc = "done"
     /\ body.url # NoUrl
     /\ cpc = "done"
     /\ Len(chunks) > 0
     /\ attempted[1] = embedded[1]) =>
        /\ response.status = 200
        /\ \E d \in documents : d.url = body.url /\ ChunksOf(d.id) # {}

\* ------------------------------------------------------------------------
\* Properties of POST /api/upload
\* ------------------------------------------------------------------------
\* the positions of the list whose entry is about file k
EntriesOf(list, k) == {j \in 1..Len(list) : list[j].file = k}

\* the ids of the documents stored since the upload began
StoredSince(n) == {d.id : d \in {x \in documents : x.id >= n}}

\* C20: the response to an upload of 1 to 5 files has exactly one entry per
\* file, in results when its document was stored and in errors otherwise,
\* so the two lists have n entries together; files after a failed one are
\* still processed; success is true exactly when results is not empty.
C20_OneEntryPerFile ==
    (upc = "done" /\ Len(uploadedFiles) \in 1..5) =>
        LET n == Len(uploadedFiles)
            r == uploadResponse.results
            e == uploadResponse.errors
        IN  /\ uploadResponse.status = 200
            /\ Len(r) + Len(e) = n
            /\ \A k \in 1..n :
                   Cardinality(EntriesOf(r, k)) + Cardinality(EntriesOf(e, k)) = 1
            /\ {r[j].documentId.id : j \in 1..Len(r)} = StoredSince(firstId)
            /\ Cardinality(StoredSince(firstId)) = Len(r)
            /\ uploadResponse.success <=> Len(r) > 0
            /\ (Len(r) = n) <=> (uploadResponse.success /\ e = <<>>)
            /\ (Len(e) = n) <=> ~ uploadResponse.success

\* partial success: the first file failed, the second was stored, and a
\* later one failed in storeDocument
C20_Witness ==
    /\ upc = "done"
    /\ uploadResponse.success
    /\ EntriesOf(uploadResponse.errors, 1) # {}
    /\ EntriesOf(uploadResponse.results, 2) # {}
    /\ \E j \in 1..Len(uploadResponse.errors) :
           /\ uploadResponse.errors[j].file > 2
           /\ uploadResponse.errors[j].error =
                  "Failed to create any chunks for document"

\* C21: the chunksCreated value reported for a document is the number of
\* its persisted Chunk rows: in the result of storeDocument, in the response
\* of POST /api/ingest and in every entry of the results of POST /api/upload.
C21_ReportedIsPersisted ==
    /\ \A p \in Procs :
           (pc[p] = "done" /\ DocumentExists(result[p].id)) =>
               result[p].chunksCreated = Cardinality(ChunksOf(result[p].id))
    /\ (ipc = "done" /\ response.status = 200) =>
           response.chunksCreated = Cardinality(ChunksOf(response.id))
    /\ upc = "done" =>
           \A j \in 1..Len(uploadResponse.results) :
               uploadResponse.results[j].chunksCreated =
                   Cardinality(ChunksOf(uploadResponse.results[j].documentId.id))

\* the text has a sentence end followed by whitespace
HasSentenceBoundary(s) ==
    \E k \in 2..Len(s) : IsSpace(s[k]) /\ IsSentenceEnd(s[k - 1])

\* C12: for a text without sentence boundary (not blank, no surrounding
\* whitespace) chunkContent returns exactly one chunk: the text itself when
\* its length is at most maxLength, else its first maxLength characters.
C12_RunOnSingleChunk ==
    (cpc = "done" /\ Trim(text) = text /\ text # <<>>
        /\ ~ HasSentenceBoundary(text)) =>
        chunks = <<IF Len(text) <= maxLength THEN text
                   ELSE Substring0(text, maxLength)>>

\* ------------------------------------------------------------------------
\* Properties of vectorSearch
\* ------------------------------------------------------------------------
Returned == spc = "done"

\* C13: every result returned by vectorSearch(query, limit, t) has a
\* similarity strictly greater than t.
C13_AboveThreshold ==
    Returned => \A k \in 1..Len(results) :
                    results[k].similarity > similarityThreshold

\* one chunk is returned while another, whose similarity equals the
\* threshold, is left out
C13_Witness ==
    /\ Returned
    /\ Len(results) = 1
    /\ \E c \in document_chunks :
           Similarity(c.embedding, queryEmbedding) = similarityThreshold

\* C14: the list the SELECT returns has at most limit rows, in order of
\* non-increasing similarity, and no chunk above the threshold that is left
\* out is more similar than a returned one.
C14_TopRanked ==
    [][(spc = "select" /\ spc' = "done") =>
         LET hits == SearchHits(queryEmbedding, similarityThreshold)
             r == results'
         IN  /\ Len(r) <= limit
             /\ \A k \in 1..Len(r) :
                    \E c \in hits : r[k] = SearchResult(c, queryEmbedding)
             /\ \A a, b \in 1..Len(r) :
                    a < b => r[a].similarity >= r[b].similarity
             /\ \A c \in hits :
                    (\A k \in 1..Len(r) : r[k] # SearchResult(c, queryEmbedding))
                      => \A k \in 1..Len(r) :
                             r[k].similarity >=
                                 Similarity(c.embedding, queryEmbedding)]_vars

\* limit 1 with two chunks above the threshold: the more similar one is
\* returned, the other is cut off
C14_Witness ==
    /\ Returned
    /\ limit = 1
    /\ Len(results) = 1
    /\ \E c \in SearchHits(queryEmbedding, similarityThreshold) :
           Similarity(c.embedding, queryEmbedding) < results[1].similarity

\* C15: with similarityThreshold = 1.01 vectorSearch returns the empty list.
C15_NothingAboveOne ==
    (Returned /\ similarityThreshold = 101) => results = <<>>

\* threshold 1.01, the SELECT has run against a chunk identical to the query
C15_Witness ==
    /\ Returned
    /\ similarityThreshold = 101
    /\ storeQueries = 1
    /\ \E c \in document_chunks :
           Similarity(c.embedding, queryEmbedding) = 100

\* C16 as stated: every returned similarity is within 0..1, whatever the
\* threshold.
C16_ScoreInUnitRange ==
    Returned => \A k \in 1..Len(results) : results[k].similarity \in 0..100

\* C16 as amended: every returned similarity is within -1..1, and within
\* 0..1 when the threshold is not negative.
C16_ScoreInRange ==
    Returned => \A k \in 1..Len(results) :
                    /\ results[k].similarity \in (0 - 100)..100
                    /\ similarityThreshold >= 0 =>
                           results[k].similarity \in 0..100

\* a result is returned for a threshold that is not negative
C16_Witness ==
    /\ Returned
    /\ similarityThreshold >= 0
    /\ Len(results) > 0

\* C17: a search whose query is empty or whitespace returns the empty list
\* at once: embed() is not called and no SELECT is run.
C17_BlankQueryShortCut ==
    (spc # "idle" /\ Trim(query) = <<>>) =>
        /\ Returned
        /\ results = <<>>
        /\ embedCalls = 0
        /\ storeQueries = 0

\* a whitespace query has returned while the store holds chunks
C17_Witness ==
    /\ Returned
    /\ query = <<" ">>
    /\ document_chunks # {}

\* C18: when embed() of the query throws, vectorSearch throws an error and
\* returns no list; no step of a search changes the tables.
C18_EmbedFailureSurfaced ==
    [][/\ (spc = "embed" /\ spc' \notin {"embed", "select"}) =>
             /\ spc' = "failed"
             /\ searchError' # ""
             /\ results' = <<>>
       /\ (spc' # spc) =>
             /\ documents' = documents
             /\ document_chunks' = document_chunks
             /\ nextId' = nextId]_vars

\* embed() has thrown, before any SELECT, while the store holds chunks
C18_Witness ==
    /\ spc = "failed"
    /\ embedCalls = 1
    /\ storeQueries = 0
    /\ document_chunks # {}


\* ------------------------------------------------------------------------
\* Further properties of the chunker
\* ------------------------------------------------------------------------
\* C24: every chunk returned by chunkContent has trimmed length at least
\* minChunkLength, unless it is the only chunk returned.
C24_MinimumUnlessOnly ==
    (cpc = "done" /\ Len(chunks) > 1) =>
        \A k \in 1..Len(chunks) : Len(Trim(chunks[k])) >= minChunkLength

\* two chunks are returned and the candidate closed last in the loop was
\* under the minimum and discarded
C24_Witness ==
    /\ cpc = "done"
    /\ Len(chunks) > 1
    /\ seed.closed # <<>>
    /\ ~ seed.pushed
    /\ Len(Trim(seed.closed)) < minChunkLength


\* the sentence-like units of a text: the parts between sentence ends
\* followed by whitespace, trimmed, blank parts left out
SentenceUnits(t) ==
    LET parts == SelectSeq(SplitSentences(t), NonBlank)
    IN  [k \in 1..Len(parts) |-> Trim(parts[k])]

\* s occurs in c as a run of consecutive characters
OccursIn(s, c) ==
    \E k \in 0..(Len(c) - Len(s)) : SubSeq(c, k + 1, k + Len(s)) = s

NoSentenceLost ==
    \A k \in 1..Len(SentenceUnits(text)) :
        \E j \in 1..Len(chunks) : OccursIn(SentenceUnits(text)[k], chunks[j])

\* C29 as stated: every sentence-like unit of the input text is contained in
\* at least one returned chunk, for every maxLength, overlap and
\* minChunkLength.
C29_NoSentenceLostAnyMinimum ==
    cpc = "done" => NoSentenceLost

\* C29 as amended: every sentence-like unit of the input text is contained
\* in at least one returned chunk, for every maxLength and overlap, when
\* minChunkLength is at most 1.
C29_NoSentenceLost ==
    (cpc = "done" /\ minChunkLength <= 1) => NoSentenceLost

\* a text of three sentences or more is returned in two chunks or more, with
\* overlap, under a minimum of 1
C29_Witness ==
    /\ cpc = "done"
    /\ minChunkLength = 1
    /\ overlap > 0
    /\ Len(SentenceUnits(text)) >= 3
    /\ Len(chunks) >= 2
    /\ seed.called


\* ------------------------------------------------------------------------
\* Properties of the FileUpload component
\* ------------------------------------------------------------------------
\* C30: a file removed from the list while it was pending is never uploaded
\* afterwards, also when a batch that began before the removal is running:
\* a file is in the list at the moment it is sent (ids are never reused, so
\* a file that is not in the list was removed); and every file that was
\* sent is in the list with status success or error when its upload ends.
C30_RemovedNeverUploaded ==
    [][/\ (fpc' = "fetch" /\ fpos' # fpos) =>
              filesToUpload'[fpos'] \in FileIds(displayedFiles)
       /\ (fpc = "fetch" /\ fpos' # fpos) =>
              \E k \in 1..Len(displayedFiles') :
                  /\ displayedFiles'[k].id = filesToUpload[fpos]
                  /\ displayedFiles'[k].status \in {"success", "error"}]_vars

TypeOK == nextId \in Nat

====
